---------------------------- MODULE Spec2Model ----------------------------
(***************************************************************************)
(* SolarROI Estimator: the form, the ROI calculation (onSubmit) and the    *)
(* location lookup of src/App.tsx (the battery variant), together with the *)
(* calculation of the earlier baseline variant (src/unnamed/part_002).     *)
(*                                                                         *)
(* Numbers.  The program computes with IEEE doubles.  The model computes   *)
(* with exact rationals [n, d] (d > 0, lowest terms); Math.round is        *)
(* floor(x + 1/2).  The two agree unless a double product lands within an  *)
(* ulp of a rounding boundary; the input values drawn below stay away from *)
(* such boundaries (their results were compared with double arithmetic).   *)
(* Field texts are sequences of one-character strings over digits, "-" and *)
(* letters (no decimal point), so that every field value is an integer.    *)
(***************************************************************************)
EXTENDS Integers, Sequences, FiniteSets, TLC

VARIABLES
    variant,         \* which App is deployed: "battery" (App.tsx) or "baseline" (part_002)
    form,            \* react-hook-form values: monthlyKWh, homeSize, sunHours, batteryCapacity
    batteryEnabled,  \* React state batteryEnabled
    results,         \* React state results: << >> is null, <<r>> holds the record r
    calcInput,       \* the data and battery toggle onSubmit was last called with (<< >>: never)
    alert,           \* title of the Alert.alert raised by the latest step ("none": no alert)
    permPending,     \* getLocationSunHours calls awaiting requestForegroundPermissionsAsync
    posPending,      \* getLocationSunHours calls awaiting getCurrentPositionAsync
    theme,           \* ThemeProvider state theme: "light" or "dark"
    exportPending    \* generateAndSharePDF calls awaiting each step: print, avail, share

vars == <<variant, form, batteryEnabled, results, calcInput, alert, permPending, posPending,
          theme, exportPending>>

-----------------------------------------------------------------------------
(* Bounds *)

\* location lookups that may be in flight at the same time
MaxLookups == 1

\* PDF exports that may be in flight at the same time
MaxExports == 1

-----------------------------------------------------------------------------
(* Exact rational arithmetic standing for the doubles of the program *)

Abs(i) == IF i < 0 THEN -i ELSE i

RECURSIVE Gcd(_, _)
Gcd(a, b) == IF b = 0 THEN a ELSE Gcd(b, a % b)

\* the rational n/d in lowest terms, d > 0
Rat(n, d) ==
    LET s == IF d < 0 THEN -1 ELSE 1
        g == Gcd(Abs(n), Abs(d))
    IN  [n |-> (s * n) \div g, d |-> (s * d) \div g]

Num(i) == [n |-> i, d |-> 1]

RAdd(x, y) == Rat(x.n * y.d + y.n * x.d, x.d * y.d)

RSub(x, y) == Rat(x.n * y.d - y.n * x.d, x.d * y.d)

\* x * y, cross-reduced before multiplying
RMul(x, y) ==
    LET g1 == Gcd(Abs(x.n), y.d)
        g2 == Gcd(Abs(y.n), x.d)
    IN  IF x.n = 0 \/ y.n = 0 THEN Num(0)
        ELSE [n |-> (x.n \div g1) * (y.n \div g2), d |-> (x.d \div g2) * (y.d \div g1)]

\* x / y for y # 0
RDiv(x, y) ==
    RMul(x, IF y.n < 0 THEN [n |-> -y.d, d |-> -y.n] ELSE [n |-> y.d, d |-> y.n])

RLess(x, y) == x.n * y.d < y.n * x.d

RMin(x, y) == IF RLess(y, x) THEN y ELSE x

RMax(x, y) == IF RLess(x, y) THEN y ELSE x

\* Math.round: the nearest integer, halves towards +infinity
MathRound(x) ==
    LET q == x.n \div x.d
        r == x.n % x.d
    IN  IF 2 * r >= x.d THEN q + 1 ELSE q

\* Math.round(x * 100), by long division so that x.n * 100 is never formed
MathRound100(x) ==
    LET q == x.n \div x.d
        r == x.n % x.d
    IN  100 * q + MathRound(Rat(100 * r, x.d))

-----------------------------------------------------------------------------
(* Text fields: onChangeText={(text) => onChange(parseFloat(text) || dflt)} *)

Digits == {"0", "1", "2", "3", "4", "5", "6", "7", "8", "9"}

DigitVal(c) ==
    CASE c = "0" -> 0 [] c = "1" -> 1 [] c = "2" -> 2 [] c = "3" -> 3 [] c = "4" -> 4
      [] c = "5" -> 5 [] c = "6" -> 6 [] c = "7" -> 7 [] c = "8" -> 8 [] c = "9" -> 9

\* the longest run of digits of text from index i on: how many, and their value
RECURSIVE ScanDigits(_, _, _, _)
ScanDigits(text, i, count, acc) ==
    IF i <= Len(text) /\ text[i] \in Digits
    THEN ScanDigits(text, i + 1, count + 1, 10 * acc + DigitVal(text[i]))
    ELSE [count |-> count, val |-> acc]

\* parseFloat on a text without decimal point or exponent: an optional sign,
\* then the longest digit prefix; NaN when there is no digit
parseFloat(text) ==
    LET neg  == Len(text) > 0 /\ text[1] = "-"
        scan == ScanDigits(text, IF neg THEN 2 ELSE 1, 0, 0)
    IN  IF scan.count = 0 THEN [nan |-> TRUE, val |-> 0]
        ELSE [nan |-> FALSE, val |-> IF neg THEN -scan.val ELSE scan.val]

\* parseFloat(text) || dflt: NaN and 0 are falsy
ParseOr(text, dflt) ==
    LET p == parseFloat(text)
    IN  IF p.nan \/ p.val = 0 THEN dflt ELSE p.val

\* texts the user enters in each field
MonthlyTexts  == {<< >>, <<"4", "0", "0">>, <<"2", "0", "0", "1">>}
HomeTexts     == {<<"a">>, <<"1", "5", "0">>, <<"5", "0", "0">>, <<"5", "0", "1">>}
SunTexts      == {<<"0">>, <<"-", "1", "0", "0">>, <<"1", "2", "0", "0", "h">>}
BatteryTexts  == {<< >>, <<"1", "0">>, <<"2", "0">>, <<"2", "1">>}


-----------------------------------------------------------------------------
(* onSubmit of src/App.tsx (battery variant): the calculation, line by line *)

\* const batteryCap = batteryEnabled ? data.batteryCapacity : 0
batteryCap(data, enabled) == IF enabled THEN data.batteryCapacity ELSE 0

roofArea(data) == RMul(Num(data.homeSize), Rat(3, 10))

panelEfficiency == Rat(15, 100)

performanceRatio == Rat(75, 100)

\* mutant: the baseline rate left in place
electricityRateBaseline == Rat(17, 100)

electricityRate == Rat(37, 100)

systemCost == RMul(Num(15000), Rat(7, 10))

batteryCostPerKWh == Num(800)

co2Factor == Rat(4, 10)

baseSelfConsumption == Rat(5, 10)

\* mutant: the boost applied from the field value, whatever the toggle says
selfConsumptionIgnoresToggle(data, enabled) ==
    IF data.batteryCapacity > 0
    THEN RMin(Rat(9, 10),
              RAdd(baseSelfConsumption,
                   RMul(RDiv(Num(data.batteryCapacity), Num(20)), Rat(4, 10))))
    ELSE baseSelfConsumption

\* 0.5, or with a battery Math.min(0.9, 0.5 + (batteryCap / 20) * 0.4)
selfConsumption(data, enabled) ==
    IF enabled /\ batteryCap(data, enabled) > 0
    THEN RMin(Rat(9, 10),
              RAdd(baseSelfConsumption,
                   RMul(RDiv(Num(batteryCap(data, enabled)), Num(20)), Rat(4, 10))))
    ELSE baseSelfConsumption

capacityKW(data) == RMul(roofArea(data), panelEfficiency)

annualProduction(data) ==
    RMul(RMul(capacityKW(data), Num(data.sunHours)), performanceRatio)

\* mutant: savings capped by the cost of the electricity the household uses
annualSavingsCappedByUsage(data, enabled) ==
    RMin(RMul(RMul(annualProduction(data), electricityRate), selfConsumption(data, enabled)),
         RMul(Num(data.monthlyKWh * 12), electricityRate))

annualSavings(data, enabled) ==
    RMul(RMul(annualProduction(data), electricityRate), selfConsumption(data, enabled))

totalCost(data, enabled) ==
    RAdd(systemCost,
         IF enabled THEN RMul(Num(batteryCap(data, enabled)), batteryCostPerKWh)
                    ELSE Num(0))

\* mutant: the guard tests for zero only (annualSavings !== 0)
paybackYearsZeroGuard(data, enabled) ==
    IF annualSavings(data, enabled).n # 0
    THEN RDiv(totalCost(data, enabled), annualSavings(data, enabled))
    ELSE Num(0)

\* annualSavings > 0 ? totalCost / annualSavings : 0
paybackYears(data, enabled) ==
    IF annualSavings(data, enabled).n > 0
    THEN RDiv(totalCost(data, enabled), annualSavings(data, enabled))
    ELSE Num(0)

co2Reduction(data) == RMul(annualProduction(data), co2Factor)

\* the Results record; payback is Math.round(paybackYears * 100) / 100
newResults(data, enabled) ==
    [annualSavings   |-> MathRound(annualSavings(data, enabled)),
     payback         |-> Rat(MathRound100(paybackYears(data, enabled)), 100),
     production      |-> MathRound(annualProduction(data)),
     co2Reduction    |-> MathRound(co2Reduction(data)),
     selfConsumption |-> selfConsumption(data, enabled)]

\* mutant: the test reads the rounded payback of the record
highPaybackRounded(data, enabled) ==
    RLess(Num(12), Rat(MathRound100(paybackYears(data, enabled)), 100))

\* if (paybackYears > 12) Alert.alert('Note', ...)
highPayback(data, enabled) == RLess(Num(12), paybackYears(data, enabled))

-----------------------------------------------------------------------------
(* onSubmit of the baseline variant (src/unnamed/part_002) *)

electricityRateV1 == Rat(17, 100)

systemCostV1 == Num(15000)

\* mutant: the battery variant's self-consumption factor applied to the baseline
annualSavingsV1SelfConsumed(data) ==
    RMul(RMul(annualProduction(data), electricityRateV1), baseSelfConsumption)

annualSavingsV1(data) == RMul(annualProduction(data), electricityRateV1)

\* mutant: the guard tests for zero only
paybackYearsV1ZeroGuard(data) ==
    IF annualSavingsV1(data).n # 0
    THEN RDiv(systemCostV1, annualSavingsV1(data))
    ELSE Num(0)

paybackYearsV1(data) ==
    IF annualSavingsV1(data).n > 0
    THEN RDiv(systemCostV1, annualSavingsV1(data))
    ELSE Num(0)

newResultsV1(data) ==
    [annualSavings |-> MathRound(annualSavingsV1(data)),
     payback       |-> Rat(MathRound100(paybackYearsV1(data)), 100),
     production    |-> MathRound(annualProduction(data)),
     co2Reduction  |-> MathRound(co2Reduction(data))]

highPaybackV1(data) == RLess(Num(20), paybackYearsV1(data))

-----------------------------------------------------------------------------
(* Validation: the rules of the mounted Controllers, applied by handleSubmit *)

monthlyKWhRule(data) == 0 <= data.monthlyKWh /\ data.monthlyKWh <= 2000

\* mutant: the max rule left out
homeSizeRuleMinOnly(data) == 50 <= data.homeSize

homeSizeRule(data) == 50 <= data.homeSize /\ data.homeSize <= 500

batteryCapacityRule(data) == 1 <= data.batteryCapacity /\ data.batteryCapacity <= 20

\* the batteryCapacity Controller is mounted, and so validated, only while
\* batteryEnabled; the sunHours Controller has no rules
Valid(data, enabled) ==
    /\ monthlyKWhRule(data)
    /\ homeSizeRule(data)
    /\ enabled => batteryCapacityRule(data)

-----------------------------------------------------------------------------
(* getLocationSunHours: the estimate written to the sunHours field *)

\* latitudes the position fix may report
Latitudes == {Num(-90), Rat(5252, 100)}

\* mutant: the estimate without the clamp
estimatedSunHoursUnclamped(latitude) ==
    RAdd(Num(1200), RMul(RSub(Num(51), latitude), Num(5)))

\* let e = 1200 + (51 - latitude) * 5; e = Math.max(1000, Math.min(1400, e))
estimatedSunHours(latitude) ==
    RMax(Num(1000),
         RMin(Num(1400),
              RAdd(Num(1200), RMul(RSub(Num(51), latitude), Num(5)))))

-----------------------------------------------------------------------------
(* State machine *)

defaultValues ==
    [monthlyKWh |-> 0, homeSize |-> 0, sunHours |-> 1200, batteryCapacity |-> 0]

noExports == [print |-> 0, avail |-> 0, share |-> 0]

Init ==
    /\ variant \in {"battery", "baseline"}
    /\ form = defaultValues
    /\ batteryEnabled = FALSE
    /\ results = << >>
    /\ calcInput = << >>
    /\ alert = "none"
    /\ permPending = 0
    /\ posPending = 0
    /\ theme = "light"     \* Appearance.getColorScheme() of a light system
    /\ exportPending = noExports

\* onChangeText of the four text fields (both variants have the first three)
ChangeMonthlyKWh(text) ==
    /\ form' = [form EXCEPT !.monthlyKWh = ParseOr(text, 0)]
    /\ alert' = "none"
    /\ UNCHANGED <<theme, exportPending, variant, batteryEnabled, results, calcInput,
                   permPending, posPending>>

EditMonthlyKWh == \E text \in MonthlyTexts : ChangeMonthlyKWh(text)

ChangeHomeSize(text) ==
    /\ form' = [form EXCEPT !.homeSize = ParseOr(text, 0)]
    /\ alert' = "none"
    /\ UNCHANGED <<theme, exportPending, variant, batteryEnabled, results, calcInput,
                   permPending, posPending>>

EditHomeSize == \E text \in HomeTexts : ChangeHomeSize(text)

ChangeSunHours(text) ==
    /\ form' = [form EXCEPT !.sunHours = ParseOr(text, 1200)]
    /\ alert' = "none"
    /\ UNCHANGED <<theme, exportPending, variant, batteryEnabled, results, calcInput,
                   permPending, posPending>>

EditSunHours == \E text \in SunTexts : ChangeSunHours(text)

\* the batteryCapacity field is rendered only while batteryEnabled
ChangeBatteryCapacity(text) ==
    /\ variant = "battery"
    /\ batteryEnabled
    /\ form' = [form EXCEPT !.batteryCapacity = ParseOr(text, 0)]
    /\ alert' = "none"
    /\ UNCHANGED <<theme, exportPending, variant, batteryEnabled, results, calcInput,
                   permPending, posPending>>

EditBatteryCapacity == \E text \in BatteryTexts : ChangeBatteryCapacity(text)

\* Switch onValueChange={setBatteryEnabled}
ToggleBattery ==
    /\ variant = "battery"
    /\ batteryEnabled' = ~batteryEnabled
    /\ alert' = "none"
    /\ UNCHANGED <<theme, exportPending, variant, form, results, calcInput, permPending, posPending>>

\* mutant: onSubmit writes the capacity it used back to the form
SubmitAcceptedWritesBack ==
    /\ variant = "battery"
    /\ Valid(form, batteryEnabled)
    /\ form' = [form EXCEPT !.batteryCapacity = batteryCap(form, batteryEnabled)]
    /\ UNCHANGED <<theme, exportPending, variant, batteryEnabled, permPending, posPending>>
    /\ calcInput' = <<[data |-> form, enabled |-> batteryEnabled]>>
    /\ results' = <<newResults(form, batteryEnabled)>>
    /\ alert' = IF highPayback(form, batteryEnabled) THEN "Note" ELSE "none"

\* handleSubmit(onSubmit) with valid values: onSubmit runs
SubmitAccepted ==
    /\ variant = "battery"
    /\ Valid(form, batteryEnabled)
    /\ UNCHANGED <<theme, exportPending, variant, form, batteryEnabled, permPending, posPending>>
    /\ calcInput' = <<[data |-> form, enabled |-> batteryEnabled]>>
    /\ results' = <<newResults(form, batteryEnabled)>>
    /\ alert' = IF highPayback(form, batteryEnabled) THEN "Note" ELSE "none"

\* handleSubmit(onSubmit) with a rule violated: onSubmit is not called
SubmitRejected ==
    /\ variant = "battery"
    /\ ~Valid(form, batteryEnabled)
    /\ alert' = "none"
    /\ UNCHANGED <<theme, exportPending, variant, form, batteryEnabled, results, calcInput,
                 permPending, posPending>>

SubmitAcceptedV1 ==
    /\ variant = "baseline"
    /\ Valid(form, FALSE)
    /\ UNCHANGED <<theme, exportPending, variant, form, batteryEnabled, permPending, posPending>>
    /\ calcInput' = <<[data |-> form, enabled |-> FALSE]>>
    /\ results' = <<newResultsV1(form)>>
    /\ alert' = IF highPaybackV1(form) THEN "Note" ELSE "none"

SubmitRejectedV1 ==
    /\ variant = "baseline"
    /\ ~Valid(form, FALSE)
    /\ alert' = "none"
    /\ UNCHANGED <<theme, exportPending, variant, form, batteryEnabled, results, calcInput,
                 permPending, posPending>>

\* press of "Use My Location for Sun Hours": runs up to the first await
LocationStart ==
    /\ variant = "battery"
    /\ permPending + posPending < MaxLookups
    /\ permPending' = permPending + 1
    /\ alert' = "none"
    /\ UNCHANGED <<theme, exportPending, variant, form, batteryEnabled, results, calcInput, posPending>>

\* status !== 'granted': alert and return
LocationDenied ==
    /\ permPending > 0
    /\ permPending' = permPending - 1
    /\ alert' = "Permission Denied"
    /\ UNCHANGED <<theme, exportPending, variant, form, batteryEnabled, results, calcInput, posPending>>

\* status === 'granted': on to getCurrentPositionAsync
LocationGranted ==
    /\ permPending > 0
    /\ permPending' = permPending - 1
    /\ posPending' = posPending + 1
    /\ alert' = "none"
    /\ UNCHANGED <<theme, exportPending, variant, form, batteryEnabled, results, calcInput>>

\* the position arrives: setValue('sunHours', Math.round(estimatedSunHours))
\* mutant: the lookup also recalculates the stored results from the updated form
LocationFixRecalculates(latitude) ==
    /\ posPending > 0
    /\ posPending' = posPending - 1
    /\ form' = [form EXCEPT !.sunHours = MathRound(estimatedSunHours(latitude))]
    /\ alert' = "Location Updated"
    /\ UNCHANGED <<theme, exportPending, variant, batteryEnabled, calcInput, permPending>>
    /\ results' = IF results = << >> THEN results
                  ELSE <<newResults(form', batteryEnabled)>>

LocationFix(latitude) ==
    /\ posPending > 0
    /\ posPending' = posPending - 1
    /\ form' = [form EXCEPT !.sunHours = MathRound(estimatedSunHours(latitude))]
    /\ alert' = "Location Updated"
    /\ UNCHANGED <<theme, exportPending, variant, batteryEnabled, results, calcInput, permPending>>

\* mutant: the catch block also resets the sunHours field to its default
LocationErrorResetsSunHours ==
    /\ permPending + posPending > 0
    /\ \/ permPending' = permPending - 1 /\ permPending > 0 /\ UNCHANGED posPending
       \/ posPending' = posPending - 1 /\ posPending > 0 /\ UNCHANGED permPending
    /\ alert' = "Location Error"
    /\ form' = [form EXCEPT !.sunHours = defaultValues.sunHours]
    /\ UNCHANGED <<theme, exportPending, variant, batteryEnabled, results, calcInput>>

\* either await throws: the catch block alerts
LocationError ==
    /\ permPending + posPending > 0
    /\ \/ permPending' = permPending - 1 /\ permPending > 0 /\ UNCHANGED posPending
       \/ posPending' = posPending - 1 /\ posPending > 0 /\ UNCHANGED permPending
    /\ alert' = "Location Error"
    /\ UNCHANGED <<theme, exportPending, variant, form, batteryEnabled, results, calcInput>>

Next ==
    \/ EditMonthlyKWh
    \/ EditHomeSize
    \/ EditSunHours
    \/ EditBatteryCapacity
    \/ ToggleBattery
    \/ SubmitAccepted
    \/ SubmitRejected
    \/ SubmitAcceptedV1
    \/ SubmitRejectedV1
    \/ LocationStart
    \/ LocationDenied
    \/ LocationGranted
    \/ \E latitude \in Latitudes : LocationFix(latitude)
    \/ LocationError

Spec == Init /\ [][Next]_vars

-----------------------------------------------------------------------------
(* Theme toggle and PDF export, and the application with every handler *)

\* toggleTheme: Appearance.setColorScheme(newTheme), and the change listener
\* stores the new scheme
ToggleTheme ==
    /\ variant = "battery"
    /\ theme' = IF theme = "dark" THEN "light" ELSE "dark"
    /\ alert' = "none"
    /\ UNCHANGED <<exportPending, variant, form, batteryEnabled, results, calcInput,
                   permPending, posPending>>

InFlight(e) == e.print + e.avail + e.share

\* Math.ceil of a rational
MathCeil(x) == -((-x.n) \div x.d)

\* mutant: one bar for every year up to the payback, without the cap of 10
chartDataUncapped(res) ==
    IF res = << >> THEN << >>
    ELSE LET length == MathCeil(res[1].payback) + 1
         IN  [i \in 1..length |-> [x |-> i, y |-> i * res[1].annualSavings]]

\* results ? Array.from({length: Math.min(10, Math.ceil(results.payback) + 1)},
\*                      (_, i) => ({x: i + 1, y: (i + 1) * results.annualSavings})) : []
chartData(res) ==
    IF res = << >> THEN << >>
    ELSE LET length == IF MathCeil(res[1].payback) + 1 < 10
                       THEN MathCeil(res[1].payback) + 1 ELSE 10
         IN  [i \in 1..length |-> [x |-> i, y |-> i * res[1].annualSavings]]

\* Math.round(results.annualSavings * ((results.selfConsumption - 0.5) /
\* results.selfConsumption)), the figure of the boost line and of the PDF block
batteryBoost(res) ==
    MathRound(RMul(Num(res.annualSavings),
                   RDiv(RSub(res.selfConsumption, Rat(1, 2)), res.selfConsumption)))

\* the battery block of generatePDFHtml is rendered iff batteryEnabled
pdfBatterySection == batteryEnabled

\* ... and shows Math.round(batteryCapacity), the watched form value
pdfBatteryCapacity == MathRound(Num(form.batteryCapacity))

\* the "Battery Boost" line of the results view is rendered iff results && batteryEnabled
batteryBoostShown == results # << >> /\ batteryEnabled

\* press of "Export PDF Report" (rendered only with results): the html is
\* generated and handed to Print.printToFileAsync
ExportStart ==
    /\ variant = "battery"
    /\ results # << >>
    /\ InFlight(exportPending) < MaxExports
    /\ exportPending' = [exportPending EXCEPT !.print = @ + 1]
    /\ alert' = "none"
    /\ UNCHANGED <<theme, variant, form, batteryEnabled, results, calcInput,
                   permPending, posPending>>

\* printToFileAsync resolves: on to Sharing.isAvailableAsync
ExportPrinted ==
    /\ exportPending.print > 0
    /\ exportPending' = [exportPending EXCEPT !.print = @ - 1, !.avail = @ + 1]
    /\ alert' = "none"
    /\ UNCHANGED <<theme, variant, form, batteryEnabled, results, calcInput,
                   permPending, posPending>>

\* isAvailableAsync resolves true: on to Sharing.shareAsync
ExportSharing ==
    /\ exportPending.avail > 0
    /\ exportPending' = [exportPending EXCEPT !.avail = @ - 1, !.share = @ + 1]
    /\ alert' = "none"
    /\ UNCHANGED <<theme, variant, form, batteryEnabled, results, calcInput,
                   permPending, posPending>>

\* isAvailableAsync resolves false: alert with the file's uri
ExportNotShareable ==
    /\ exportPending.avail > 0
    /\ exportPending' = [exportPending EXCEPT !.avail = @ - 1]
    /\ alert' = "Sharing Not Available"
    /\ UNCHANGED <<theme, variant, form, batteryEnabled, results, calcInput,
                   permPending, posPending>>

\* shareAsync resolves
ExportShared ==
    /\ exportPending.share > 0
    /\ exportPending' = [exportPending EXCEPT !.share = @ - 1]
    /\ alert' = "none"
    /\ UNCHANGED <<theme, variant, form, batteryEnabled, results, calcInput,
                   permPending, posPending>>

\* any of the awaits throws: the catch block alerts
ExportError ==
    /\ \E stage \in {"print", "avail", "share"} :
          /\ exportPending[stage] > 0
          /\ exportPending' = [exportPending EXCEPT ![stage] = @ - 1]
    /\ alert' = "PDF Error"
    /\ UNCHANGED <<theme, variant, form, batteryEnabled, results, calcInput,
                   permPending, posPending>>

\* texts and latitudes drawn when every handler of the application is composed
MonthlyTextsApp == {<<"2", "0", "0", "1">>}
HomeTextsApp    == {<<"1", "5", "0">>, <<"5", "0", "1">>}
SunTextsApp     == {<<"9", "3", "4">>, <<"5", "0", "0">>}
BatteryTextsApp == {<<"1", "0">>, <<"2", "1">>}
LatitudesApp    == {Rat(5252, 100)}

NextApp ==
    \/ \E text \in MonthlyTextsApp : ChangeMonthlyKWh(text)
    \/ \E text \in HomeTextsApp : ChangeHomeSize(text)
    \/ \E text \in SunTextsApp : ChangeSunHours(text)
    \/ \E text \in BatteryTextsApp : ChangeBatteryCapacity(text)
    \/ ToggleBattery
    \/ ToggleTheme
    \/ SubmitAccepted
    \/ SubmitRejected
    \/ SubmitAcceptedV1
    \/ SubmitRejectedV1
    \/ LocationStart
    \/ LocationDenied
    \/ LocationGranted
    \/ \E latitude \in LatitudesApp : LocationFix(latitude)
    \/ LocationError
    \/ ExportStart
    \/ ExportPrinted
    \/ ExportSharing
    \/ ExportNotShareable
    \/ ExportShared
    \/ ExportError

SpecApp == Init /\ [][NextApp]_vars

-----------------------------------------------------------------------------
(* Claims *)

HasResults == results # << >>

\* the input of the calculation that produced the stored results record
In == calcInput[1]

Res == results[1]

\* C1: in the battery variant a calculation with homeSize = 150, sunHours = 1200,
\* battery enabled and batteryCapacity = 10 stores selfConsumption = 0.7,
\* production = 6075, annualSavings = 1573, payback = 11.76, co2Reduction = 2430.
C1_BatteryExample ==
    (/\ variant = "battery"
     /\ HasResults
     /\ In.data.homeSize = 150
     /\ In.data.sunHours = 1200
     /\ In.enabled
     /\ In.data.batteryCapacity = 10)
    => Res = [annualSavings   |-> 1573,
              payback         |-> [n |-> 294, d |-> 25],
              production      |-> 6075,
              co2Reduction    |-> 2430,
              selfConsumption |-> [n |-> 7, d |-> 10]]

C1_Witness ==
    /\ variant = "battery"
    /\ HasResults
    /\ In.data.homeSize = 150
    /\ In.data.sunHours = 1200
    /\ In.enabled
    /\ In.data.batteryCapacity = 10

\* C2: in the baseline variant a calculation with monthlyKWh = 400, homeSize = 150,
\* sunHours = 1200 stores production = 6075, annualSavings = 1033 (production times
\* the rate 0.17, no self-consumption factor), payback = 14.52, co2Reduction = 2430.
C2_BaselineExample ==
    (/\ variant = "baseline"
     /\ HasResults
     /\ In.data.monthlyKWh = 400
     /\ In.data.homeSize = 150
     /\ In.data.sunHours = 1200)
    => Res = [annualSavings |-> 1033,
              payback       |-> [n |-> 363, d |-> 25],
              production    |-> 6075,
              co2Reduction  |-> 2430]

C2_Witness ==
    /\ variant = "baseline"
    /\ HasResults
    /\ In.data.monthlyKWh = 400
    /\ In.data.homeSize = 150
    /\ In.data.sunHours = 1200

\* percent p as a fraction: x = p / 100
IsPercent(x, p) == x.n * 100 = p * x.d

\* C3: every results record of the battery variant has selfConsumption equal to
\* min(0.9, 0.5 + (batteryCapacity / 20) * 0.4), within [0.5, 0.9], when the battery
\* was enabled at calculation time, and exactly 0.5 when it was disabled, whatever
\* the batteryCapacity field holds.
C3_SelfConsumptionRange ==
    (variant = "battery" /\ HasResults) =>
        IF In.enabled
        THEN /\ IsPercent(Res.selfConsumption,
                          IF 50 + 2 * In.data.batteryCapacity > 90
                          THEN 90 ELSE 50 + 2 * In.data.batteryCapacity)
             /\ Res.selfConsumption.n * 2 >= Res.selfConsumption.d
             /\ Res.selfConsumption.n * 10 <= 9 * Res.selfConsumption.d
        ELSE IsPercent(Res.selfConsumption, 50)

\* a calculation made with the battery disabled while the field holds 21
C3_Witness ==
    /\ variant = "battery"
    /\ HasResults
    /\ ~In.enabled
    /\ In.data.batteryCapacity = 21

\* the unrounded annual savings of the calculation that produced the results
SavingsOf(v, in) ==
    IF v = "battery" THEN annualSavings(in.data, in.enabled) ELSE annualSavingsV1(in.data)

\* base system cost, plus batteryCapacity times 800 when the battery is enabled
CostOf(v, in) ==
    IF v = "battery"
    THEN 10500 + (IF in.enabled THEN 800 * in.data.batteryCapacity ELSE 0)
    ELSE 15000

\* p is cost / savings rounded to two decimals (halves up): with h = 100 p and
\* cost / savings = q + r / b, h - 100 q is 100 r / b rounded to an integer
IsRoundedQuotient(p, cost, savings) ==
    LET x == RDiv(Num(cost), savings)
        q == x.n \div x.d
        r == x.n % x.d
        h == (p.n * 100) \div p.d
        m == (100 * r) \div x.d
        u == (100 * r) % x.d
    IN  /\ p.n * 100 = h * p.d
        /\ h - 100 * q \in {m, m + 1}
        /\ h - 100 * q = m + 1 <=> 2 * u >= x.d

IsNumber(x) == x \in Int

IsReal(x) == DOMAIN x = {"n", "d"} /\ x.n \in Int /\ x.d \in Int /\ x.d > 0

WellFormed(v, r) ==
    /\ IsNumber(r.annualSavings)
    /\ IsNumber(r.production)
    /\ IsNumber(r.co2Reduction)
    /\ IsReal(r.payback)
    /\ v = "battery" => IsReal(r.selfConsumption)

\* C5: the calculation yields a complete record (every field a number) for every
\* form content that passes validation, every accepted submit has stored such a
\* record, and when the unrounded annual savings are not strictly positive the
\* payback is 0 (no quotient is formed).
C5_CalculationTotal ==
    /\ (variant = "battery" /\ Valid(form, batteryEnabled))
          => WellFormed(variant, newResults(form, batteryEnabled))
    /\ (variant = "baseline" /\ Valid(form, FALSE))
          => WellFormed(variant, newResultsV1(form))
    /\ calcInput # << >> =>
        /\ HasResults
        /\ WellFormed(variant, Res)
        /\ SavingsOf(variant, In).n <= 0 => Res.payback = Num(0)

\* a stored record whose savings were negative
C5_Witness ==
    /\ variant = "battery"
    /\ HasResults
    /\ In.enabled
    /\ SavingsOf(variant, In).n < 0
    /\ Res.annualSavings < 0

\* C6 as claimed: for every accepted input, whatever the sunHours field holds,
\* the production stored in the results record is >= 0.
C6_ProductionNonNegative == HasResults => Res.production >= 0

\* the input a submit is about to hand to onSubmit
Now == [data |-> form, enabled |-> batteryEnabled]

\* the submitted input differs from the previous calculation's only by a homeSize
\* that is not smaller, or only by a sunHours that is not smaller
GrewInOneField ==
    /\ Now.enabled = In.enabled
    /\ \/ /\ Now.data = [In.data EXCEPT !.homeSize = form.homeSize]
          /\ form.homeSize >= In.data.homeSize
       \/ /\ Now.data = [In.data EXCEPT !.sunHours = form.sunHours]
          /\ form.sunHours >= In.data.sunHours

\* C7 as claimed: of two accepted inputs that differ only in homeSize, or only in
\* sunHours, the one with the larger value yields a production that is not smaller.
C7_ProductionMonotone ==
    [][((SubmitAccepted \/ SubmitAcceptedV1) /\ HasResults /\ GrewInOneField)
          => results'[1].production >= Res.production]_vars

\* C8: a submit, accepted or rejected, changes no form field and not the battery
\* toggle, and an accepted submit of the very input of the previous calculation
\* stores a results record identical to the one already held.
C8_SubmitPureAndRepeatable ==
    [][(SubmitAccepted \/ SubmitRejected \/ SubmitAcceptedV1 \/ SubmitRejectedV1)
          => /\ form' = form
             /\ batteryEnabled' = batteryEnabled
             /\ (HasResults /\ calcInput' = calcInput) => results' = results]_vars

\* an accepted submit has just run (only it raises "Note") and the form still
\* holds the submitted input, so the next submit repeats the calculation
C8_Witness ==
    /\ HasResults
    /\ In = Now
    /\ alert = "Note"

\* C9: every results record held was computed from an input with monthlyKWh in
\* [0, 2000], homeSize in [50, 500] and, if the battery was enabled, batteryCapacity
\* in [1, 20]; out-of-range form content never reaches the calculation.
C9_ResultsFromValidInput ==
    HasResults =>
        /\ In.data.monthlyKWh \in 0..2000
        /\ In.data.homeSize \in 50..500
        /\ In.enabled => In.data.batteryCapacity \in 1..20

\* results are held while the form content is out of range, so a submit is rejected
C9_Witness ==
    /\ HasResults
    /\ form.homeSize > 500
    /\ batteryEnabled
    /\ form.batteryCapacity > 20
    /\ form.monthlyKWh > 2000

\* v is x rounded to the nearest integer (halves up)
IsRounded(v, x) ==
    /\ (2 * v - 1) * x.d <= 2 * x.n
    /\ 2 * x.n < (2 * v + 1) * x.d

\* C10: a successful location lookup writes round(clamp(1200 + (51 - latitude) * 5,
\* 1000, 1400)) to the sunHours field, a value between 1000 and 1400.
C10_LocationSunHours ==
    [][\A latitude \in Latitudes :
          LocationFix(latitude) =>
              LET raw == RAdd(Num(1200), RMul(RSub(Num(51), latitude), Num(5)))
              IN  /\ form'.sunHours \in 1000..1400
                  /\ IF RLess(raw, Num(1000)) THEN form'.sunHours = 1000
                     ELSE IF RLess(Num(1400), raw) THEN form'.sunHours = 1400
                     ELSE IsRounded(form'.sunHours, raw)]_vars

\* a lookup has just written a sunHours value that needed rounding
C10_Witness ==
    /\ alert = "Location Updated"
    /\ form.sunHours = 1192

FailureAlerts == {"Permission Denied", "Location Error", "PDF Error"}

\* C11: a denied permission, a location error and a PDF error each raise an alert,
\* and a step that raises one of these alerts changes neither sunHours, nor any
\* other form field, nor the battery toggle, nor the stored results.
C11_FailuresAdvisory ==
    [][/\ (LocationDenied \/ LocationError \/ ExportError) => alert' \in FailureAlerts
       /\ alert' \in FailureAlerts =>
             /\ form' = form
             /\ batteryEnabled' = batteryEnabled
             /\ results' = results]_vars

\* a location error reported while results are held and sunHours is not the default
C11_Witness ==
    /\ alert = "Location Error"
    /\ HasResults
    /\ form.sunHours = 934

\* C12: with results held the chart has N bars for the years 1..N, where N is 10
\* or, when that is smaller, the least whole number of years >= payback, plus one;
\* N is between 1 and 10; bar k is k times annualSavings.  Without results the
\* chart is empty.
C12_ChartBars ==
    LET c == chartData(results)
        N == Len(c)
    IN  IF ~HasResults THEN c = << >>
        ELSE /\ N \in 1..10
             /\ \/ N = 10 /\ RLess(Num(8), Res.payback)
                \/ /\ ~RLess(Num(N - 1), Res.payback)
                   /\ RLess(Num(N - 2), Res.payback)
             /\ \A k \in 1..N :
                   /\ c[k].x = k
                   /\ c[k].y = (IF k = 1 THEN 0 ELSE c[k - 1].y) + Res.annualSavings

\* a chart cut off at 10 bars although the payback is beyond 10 years
C12_Witness ==
    /\ HasResults
    /\ RLess(Num(10), Res.payback)
    /\ Len(chartData(results)) = 10

\* the payback threshold of the alert in each variant
Threshold(v) == IF v = "battery" THEN 12 ELSE 20

\* C13 as claimed: an accepted submit stores the results, and raises the
\* high-payback alert iff the payback of the stored record exceeds the threshold.
C13_AlertOnStoredPayback ==
    [][(SubmitAccepted \/ SubmitAcceptedV1) =>
          /\ results' # << >>
          /\ alert' = "Note" <=> RLess(Num(Threshold(variant)), results'[1].payback)]_vars

\* C13 amended: an accepted submit stores the results, and raises the high-payback
\* alert iff the payback before rounding exceeds the threshold, that is iff
\* savings are positive and the cost exceeds threshold times the savings.
C13_AlertOnUnroundedPayback ==
    [][(SubmitAccepted \/ SubmitAcceptedV1) =>
          /\ results' # << >>
          /\ alert' = "Note" <=>
                /\ RLess(Num(0), SavingsOf(variant, Now))
                /\ RLess(RMul(Num(Threshold(variant)), SavingsOf(variant, Now)),
                         Num(CostOf(variant, Now)))]_vars

\* the alert raised with a stored payback of exactly 12.00 years
C13_Witness ==
    /\ variant = "battery"
    /\ alert = "Note"
    /\ HasResults
    /\ Res.payback = Num(12)

\* the record a calculation of variant v stores for the input in
StoredFor(v, in) ==
    IF v = "battery" THEN newResults(in.data, in.enabled) ELSE newResultsV1(in.data)

\* C14: in every reachable state, whatever edits, battery toggles, theme toggles,
\* location lookups, PDF exports and rejected submits have happened, results is
\* absent when no submit was accepted and is otherwise the whole record stored by
\* the most recent accepted submit.
C14_ResultsFromLastCalculation ==
    IF calcInput = << >> THEN results = << >>
    ELSE results = <<StoredFor(variant, In)>>

\* a lookup has completed after the calculation, with the theme toggled and an
\* export in flight
C14_Witness ==
    /\ alert = "Location Updated"
    /\ HasResults
    /\ form.sunHours # In.data.sunHours
    /\ theme = "dark"
    /\ InFlight(exportPending) > 0

\* C15: whenever the "Battery Boost" line is displayed or the battery block of the
\* PDF would be generated, the stored results were computed with the battery
\* enabled and with the capacity that is displayed, and the boost formula divides
\* by a selfConsumption that is not 0.
C15_BatteryInfoFromCalculation ==
    (HasResults /\ (batteryBoostShown \/ pdfBatterySection)) =>
        /\ In.enabled
        /\ In.data.batteryCapacity = pdfBatteryCapacity
        /\ Res.selfConsumption.n # 0

\* C16: an accepted submit whose input agrees with that of the stored calculation
\* on homeSize, sunHours, the battery toggle and batteryCapacity stores the
\* identical record, whatever monthlyKWh is.
C16_MonthlyKWhIrrelevant ==
    (/\ HasResults
     /\ Valid(form, batteryEnabled)
     /\ batteryEnabled = In.enabled
     /\ [form EXCEPT !.monthlyKWh = In.data.monthlyKWh] = In.data) =>
        results = <<StoredFor(variant, Now)>>

\* a valid form that differs from the stored calculation's input in monthlyKWh only
C16_Witness ==
    /\ HasResults
    /\ Valid(form, batteryEnabled)
    /\ batteryEnabled = In.enabled
    /\ form = [In.data EXCEPT !.monthlyKWh = 400]
    /\ In.data.monthlyKWh = 0

=============================================================================
